---- MODULE Spec2Model ----
(***************************************************************************)
(* Tic-tac-toe app (React Native): win detection, the persisted game       *)
(* store behind AsyncStorage, and the history screen's grouping, rename    *)
(* and delete handlers.                                                    *)
(*                                                                         *)
(* JavaScript strings are modelled as sequences of one-character strings,  *)
(* so that trim, split and concatenation are computed, not assumed.        *)
(***************************************************************************)
EXTENDS Integers, Sequences, FiniteSets, TLC

VARIABLES
    board,            \* GameScreen state: the 9 cells
    res,              \* value returned by the last calculateWinner call
    xIsNext,          \* GameScreen state: whether X moves next
    winner,           \* GameScreen state: the winner's name, 'Draw', or nullStr
    winningCombo,     \* GameScreen state: the winning line, <<>> for null
    firstPlayer,      \* route.params.firstPlayer of the Game screen
    games,            \* HistoryScreen state: the in-memory games list
    sections,         \* HistoryScreen render: groupGamesByPlayers()
    editingTitle,     \* HistoryScreen state: title being edited, or nullStr
    editedTitleText,  \* HistoryScreen state: text of the title input
    store,            \* AsyncStorage item under STORAGE_KEY
    inflight,         \* AsyncStorage calls issued and not yet settled, oldest first
    screen,           \* screen on top of the navigation stack
    back,             \* screen under the History screen
    playerX,          \* route.params.playerX of the Game screen
    playerO,          \* route.params.playerO of the Game screen
    now,              \* Date.now()
    last,             \* the handler step just taken: its state before, its outcome
    pc                \* "start"/"done" in the function harnesses, "run" in Spec

vars == <<board, res, xIsNext, winner, winningCombo, firstPlayer, games, sections,
          editingTitle, editedTitleText, store, inflight, screen, back, playerX,
          playerO, now, last, pc>>

histVars == <<games, sections, editingTitle, editedTitleText>>
navVars == <<screen, back, playerX, playerO>>

----------------------------------------------------------------------------
(* Bounds *)

MaxLen == 3           \* longest games list drawn for the grouping harness
MaxNow == 1           \* latest value of the clock, one game ending per tick (Spec)
MaxSaves == 2         \* latest value of the clock (SpecStore)
MaxInflight == 2      \* most AsyncStorage calls in flight at once (Spec, SpecStore)
MaxHist == 2          \* longest games list the history screen starts from (SpecHistory)

----------------------------------------------------------------------------
(* Strings *)

Str(c1) == <<c1>>
SEP == <<" ", "v", "s", " ">>
WINS == <<" ", "w", "i", "n", "s">>
DRAW == <<"D", "r", "a", "w">>
DRAWS == <<"D", "r", "a", "w", "s">>
GAME == <<"G", "a", "m", "e", " ">>

\* JS undefined (a destructured element past the end of the array)
undefined == <<"undefined">>

\* JS truthiness of a string-or-undefined value
Truthy(s) == s # undefined /\ s # <<>>

RECURSIVE TrimLeft(_)
TrimLeft(s) ==
    IF s = <<>> THEN <<>>
    ELSE IF Head(s) = " " THEN TrimLeft(Tail(s)) ELSE s

RECURSIVE TrimRight(_)
TrimRight(s) ==
    IF s = <<>> THEN <<>>
    ELSE IF s[Len(s)] = " " THEN TrimRight(SubSeq(s, 1, Len(s) - 1)) ELSE s

\* String.prototype.trim
trim(s) == TrimRight(TrimLeft(s))

\* String.prototype.indexOf, 1-based; 0 when sep does not occur
IndexOf(s, sep) ==
    LET hits == {i \in 1..(Len(s) - Len(sep) + 1) :
                    SubSeq(s, i, i + Len(sep) - 1) = sep}
    IN IF hits = {} THEN 0 ELSE CHOOSE i \in hits : \A j \in hits : i <= j

\* String.prototype.split with a non-empty separator
RECURSIVE split(_, _)
split(s, sep) ==
    LET i == IndexOf(s, sep)
    IN IF i = 0 THEN <<s>>
       ELSE <<SubSeq(s, 1, i - 1)>> \o split(SubSeq(s, i + Len(sep), Len(s)), sep)

\* array destructuring: const [x, o] = parts
Elem(parts, i) == IF i <= Len(parts) THEN parts[i] ELSE undefined

\* decimal digits of a positive integer, as a string
RECURSIVE Decimal(_)
Decimal(n) ==
    LET d == <<"0", "1", "2", "3", "4", "5", "6", "7", "8", "9">>
    IN IF n < 10 THEN <<d[n + 1]>> ELSE Decimal(n \div 10) \o <<d[(n % 10) + 1]>>

----------------------------------------------------------------------------
(* calculateWinner *)

null == "null"
Cells == {"X", "O", null}
Boards == [0..8 -> Cells]

lines == << <<0, 1, 2>>, <<3, 4, 5>>, <<6, 7, 8>>,
            <<0, 3, 6>>, <<1, 4, 7>>, <<2, 5, 8>>,
            <<0, 4, 8>>, <<2, 4, 6>> >>

\* a slip: the test of one line without its first conjunct
LineWins_NoEmptyCheck(b, l) == b[l[1]] = b[l[2]] /\ b[l[1]] = b[l[3]]

\* the test of one line: b[a] && b[a] === b[b1] && b[a] === b[c]
LineWins(b, l) == b[l[1]] # null /\ b[l[1]] = b[l[2]] /\ b[l[1]] = b[l[3]]

\* the for loop from line k on; <<>> models the null result
RECURSIVE calculateWinnerFrom(_, _)
calculateWinnerFrom(b, k) ==
    IF k > Len(lines) THEN <<>>
    ELSE IF LineWins(b, lines[k]) THEN <<b[lines[k][1]], lines[k]>>
    ELSE calculateWinnerFrom(b, k + 1)

calculateWinner(b) == calculateWinnerFrom(b, 1)

----------------------------------------------------------------------------
(* groupGamesByPlayers *)

\* a slip: the key built from the names as stored
GroupKey_Untrimmed(game) == game.players.X \o SEP \o game.players.O

\* const key = `${X} vs ${O}` with X, O the trimmed names
GroupKey(game) == trim(game.players.X) \o SEP \o trim(game.players.O)

\* { ...game, players: { X, O } }
Normalized(game) ==
    [game EXCEPT !.players = [X |-> trim(game.players.X), O |-> trim(game.players.O)]]

\* one iteration of the for loop: groups is the object's entries in insertion order
AddToGroups(groups, game) ==
    LET key == GroupKey(game)
        at == {i \in DOMAIN groups : groups[i].title = key}
    IN IF at = {}
       THEN Append(groups, [title |-> key, data |-> <<Normalized(game)>>])
       ELSE LET i == CHOOSE i \in at : TRUE
            IN [groups EXCEPT ![i].data = Append(@, Normalized(game))]

RECURSIVE GroupFold(_, _)
GroupFold(groups, gs) ==
    IF gs = <<>> THEN groups ELSE GroupFold(AddToGroups(groups, Head(gs)), Tail(gs))

\* the if / else if / else of the data.map callback
Tally(game) ==
    IF game.result = game.players.X \o WINS THEN "x"
    ELSE IF game.result = game.players.O \o WINS THEN "o"
    ELSE "d"

CountTally(data, t) == Cardinality({k \in DOMAIN data : Tally(data[k]) = t})

\* the object literal { [X]: xWins, [O]: oWins, Draws: draws }: a later key
\* equal to an earlier one overwrites it
StatsOf(data) ==
    LET X == data[1].players.X
        O == data[1].players.O
    IN [k \in {X, O, DRAWS} |->
          IF k = DRAWS THEN CountTally(data, "d")
          ELSE IF k = O THEN CountTally(data, "o")
          ELSE CountTally(data, "x")]

\* { ...game, gameNumber: `Game ${index + 1}` }
Numbered(game, index) ==
    [board |-> game.board, result |-> game.result, players |-> game.players,
     timestamp |-> game.timestamp, gameNumber |-> GAME \o Decimal(index + 1)]

Section(group) ==
    [title |-> group.title,
     data |-> [k \in DOMAIN group.data |-> Numbered(group.data[k], k - 1)],
     stats |-> StatsOf(group.data)]

groupGamesByPlayers(gs) ==
    LET groups == GroupFold(<<>>, gs)
    IN [i \in DOMAIN groups |-> Section(groups[i])]

----------------------------------------------------------------------------
(* Inputs of the handlers *)

A == Str("a")
B == Str("b")
C == Str("c")
SP == Str(" ")

\* what the user types into the two name inputs of the Home screen
PlayerInputs ==
    { <<A, B>>, <<B, A>>, <<A \o SEP \o B, C>>, <<SP \o A, B>>, <<SP, B>> }

\* what the user types into the title input of a history section
TitleInputs ==
    { SP, A \o B, B \o SEP \o A, A \o SEP \o B \o SEP \o C, SP \o C \o SEP \o A \o SP,
      B \o SP \o SEP \o A }

EmptyBoard == [i \in 0..8 |-> null]
XWinBoard == [i \in 0..8 |-> IF i \in {0, 1, 2} THEN "X" ELSE IF i \in {3, 4} THEN "O" ELSE null]
OWinBoard == [i \in 0..8 |-> IF i \in {0, 4, 8} THEN "O" ELSE IF i \in {1, 2, 3} THEN "X" ELSE null]
DrawBoard == [i \in 0..8 |-> IF i \in {0, 1, 5, 6, 8} THEN "X" ELSE "O"]

\* the calls handlePress makes: saveGame(newBoard, `${winName} wins`) and
\* saveGame(newBoard, 'Draw')
Endings == { <<XWinBoard, "X">>, <<OWinBoard, "O">>, <<DrawBoard, "Draw">> }

----------------------------------------------------------------------------
(* The persisted store *)

nullStr == <<"null">>

\* AsyncStorage.getItem's values: null, a JSON text, or a text JSON.parse rejects
Absent == [kind |-> "absent", json |-> <<>>]
Corrupt == [kind |-> "corrupt", json |-> <<>>]

\* JSON.stringify of a list of records
Stringify(list) == [kind |-> "json", json |-> list]

\* a slip: the parse wrapped so that it never throws
ParseThrows_Never(data) == FALSE

\* whether `data ? JSON.parse(data) : []` throws
ParseThrows(data) == data.kind = "corrupt"

\* the value of `data ? JSON.parse(data) : []` when it does not throw
ParseOrEmpty(data) == IF data.kind = "json" THEN data.json ELSE <<>>

\* a record the earlier revision of saveGame wrote: names as typed, not trimmed
LegacyGame ==
    [board |-> XWinBoard, result |-> SP \o A \o WINS,
     players |-> [X |-> SP \o A, O |-> B], timestamp |-> 0]

----------------------------------------------------------------------------
(* Requests in flight and the record of the last step *)

NoGames == <<>>

Req(op, call, value, live, seen, oldTitle, newTitle, ts) ==
    [op |-> op, call |-> call, value |-> value, live |-> live, seen |-> seen,
     oldTitle |-> oldTitle, newTitle |-> newTitle, timestamp |-> ts]

NoReq == Req("none", "none", NoGames, FALSE, NoGames, nullStr, nullStr, 0)

Pre == [games |-> games, store |-> store, editingTitle |-> editingTitle,
        editedTitleText |-> editedTitleText, inflight |-> inflight,
        board |-> board, xIsNext |-> xIsNext, winner |-> winner]

NoPre == [games |-> NoGames, store |-> Absent, editingTitle |-> nullStr,
          editedTitleText |-> <<>>, inflight |-> <<>>,
          board |-> EmptyBoard, xIsNext |-> TRUE, winner |-> nullStr]

\* op: the handler; phase: "call" (its synchronous part) or "settled" (the
\* continuation after an await); alert: the message of Alert.alert, "" when none;
\* io: whether the awaited AsyncStorage call rejected
Step(op, phase, alert, io, pre, req) ==
    [op |-> op, phase |-> phase, alert |-> alert, io |-> io, pre |-> pre, req |-> req]

NoStep == Step("none", "none", "", FALSE, NoPre, NoReq)

Render(gs) == sections' = groupGamesByPlayers(gs)

----------------------------------------------------------------------------
(* Navigation *)

gameVars == <<board, res, xIsNext, winner, winningCombo, firstPlayer>>
playVars == <<board, xIsNext, winner, winningCombo, firstPlayer>>

\* the state of a GameScreen that is not mounted
NoGameScreen ==
    /\ board = EmptyBoard
    /\ xIsNext = TRUE
    /\ winner = nullStr
    /\ winningCombo = <<>>
    /\ firstPlayer = "X"

\* HomeScreen.startGame; f is the first player chosen, null when none is; the
\* GameScreen mounts with its initial state
startGame(x, o, f) ==
    LET trimmedX == trim(x)
        trimmedO == trim(o)
    IN /\ screen = "Home"
       /\ IF ~Truthy(trimmedX) \/ ~Truthy(trimmedO)
          THEN /\ last' = Step("startGame", "call", "Enter both names", FALSE, NoPre, NoReq)
               /\ UNCHANGED <<navVars, playVars>>
          ELSE IF f = null
          THEN /\ last' = Step("startGame", "call", "Select who goes first", FALSE,
                               NoPre, NoReq)
               /\ UNCHANGED <<navVars, playVars>>
          ELSE /\ playerX' = trimmedX
               /\ playerO' = trimmedO
               /\ firstPlayer' = f
               /\ screen' = "Game"
               /\ board' = EmptyBoard
               /\ xIsNext' = (f = "X")
               /\ winner' = nullStr
               /\ winningCombo' = <<>>
               /\ last' = NoStep
               /\ UNCHANGED back
       /\ UNCHANGED <<res, histVars, store, inflight, now, pc>>

\* navigation.navigate('History'): HistoryScreen mounts with its initial state and
\* its focus effect calls loadGames, which awaits AsyncStorage.getItem
OpenHistory ==
    /\ screen \in {"Home", "Game"}
    /\ back' = screen
    /\ screen' = "History"
    /\ games' = NoGames
    /\ Render(NoGames)
    /\ editingTitle' = nullStr
    /\ editedTitleText' = <<>>
    /\ inflight' = Append(inflight,
                      Req("loadGames", "getItem", NoGames, TRUE, NoGames, nullStr, nullStr, 0))
    /\ last' = NoStep
    /\ UNCHANGED <<gameVars, store, playerX, playerO, now, pc>>

\* navigation.goBack(): HistoryScreen unmounts; the continuations of its pending
\* calls still run, but their state setters no longer reach a mounted screen
GoBack ==
    /\ screen = "History"
    /\ screen' = back
    /\ inflight' = [i \in DOMAIN inflight |->
                      IF inflight[i].op = "saveGame" THEN inflight[i]
                      ELSE [inflight[i] EXCEPT !.live = FALSE]]
    /\ back' = "Home"
    /\ games' = NoGames
    /\ Render(NoGames)
    /\ editingTitle' = nullStr
    /\ editedTitleText' = <<>>
    /\ last' = NoStep
    /\ UNCHANGED <<gameVars, store, playerX, playerO, now, pc>>

\* navigation.navigate('Home') from the Game screen
ChangePlayers ==
    /\ screen = "Game"
    /\ screen' = "Home"
    /\ playerX' = <<>>
    /\ playerO' = <<>>
    /\ board' = EmptyBoard
    /\ xIsNext' = TRUE
    /\ winner' = nullStr
    /\ winningCombo' = <<>>
    /\ firstPlayer' = "X"
    /\ last' = NoStep
    /\ UNCHANGED <<res, histVars, store, inflight, back, now, pc>>

----------------------------------------------------------------------------
(* GameScreen.saveGame *)

NewGame(boardState, result, t) ==
    [board |-> boardState, result |-> result,
     players |-> [X |-> trim(playerX), O |-> trim(playerO)], timestamp |-> t]

ResultText(kind) ==
    IF kind = "X" THEN playerX \o WINS
    ELSE IF kind = "O" THEN playerO \o WINS
    ELSE DRAW

\* saveGame up to its first await: the record is built, getItem is issued
saveGame(boardState, kind) ==
    /\ screen = "Game"
    /\ now' = now + 1
    /\ inflight' = Append(inflight,
           Req("saveGame", "getItem", <<NewGame(boardState, ResultText(kind), now + 1)>>,
               FALSE, NoGames, nullStr, nullStr, now + 1))
    /\ last' = NoStep
    /\ UNCHANGED <<gameVars, histVars, store, navVars, pc>>

\* a slip: the new record put after the records read
Prepend_Appended(game, list) == list \o <<game>>

\* [game, ...games]
Prepend(game, list) == <<game>> \o list

\* saveGame after getItem settles: parse, then issue setItem
saveGameRead ==
    /\ inflight # <<>>
    /\ Head(inflight).op = "saveGame"
    /\ Head(inflight).call = "getItem"
    /\ \E io \in BOOLEAN :
          LET h == Head(inflight)
          IN IF io \/ ParseThrows(store)
             THEN /\ inflight' = Tail(inflight)
                  /\ last' = Step("saveGame", "read", "Failed to save the game.", io, Pre, h)
             ELSE /\ inflight' = Append(Tail(inflight),
                         [h EXCEPT !.call = "setItem",
                                   !.value = Prepend(h.value[1], ParseOrEmpty(store)),
                                   !.seen = ParseOrEmpty(store)])
                  /\ last' = Step("saveGame", "read", "", io, Pre, h)
    /\ UNCHANGED <<gameVars, histVars, store, navVars, now, pc>>

\* saveGame after setItem settles
saveGameWrite ==
    /\ inflight # <<>>
    /\ Head(inflight).op = "saveGame"
    /\ Head(inflight).call = "setItem"
    /\ inflight' = Tail(inflight)
    /\ \E io \in BOOLEAN :
          LET h == Head(inflight)
          IN IF io
             THEN /\ last' = Step("saveGame", "settled", "Failed to save the game.", io, Pre, h)
                  /\ UNCHANGED store
             ELSE /\ store' = Stringify(h.value)
                  /\ last' = Step("saveGame", "settled", "", io, Pre, h)
    /\ UNCHANGED <<gameVars, histVars, navVars, now, pc>>

----------------------------------------------------------------------------
(* GameScreen.handlePress *)

\* the record of a handlePress(index) step; saved tells whether it called saveGame
PressStep(index, saved) ==
    [op |-> "handlePress", phase |-> "call", alert |-> IF saved THEN "Game Over" ELSE "",
     io |-> FALSE, pre |-> Pre, req |-> NoReq, index |-> index]

\* newBoard[index] = xIsNext ? 'X' : 'O'
NewBoard(index) == [board EXCEPT ![index] = IF xIsNext THEN "X" ELSE "O"]

\* newBoard.every(Boolean)
EveryCell(b) == \A i \in 0..8 : b[i] # null

\* the call saveGame(boardState, result) as far as its first await
saveGameCall(boardState, result) ==
    /\ now' = now + 1
    /\ inflight' = Append(inflight,
           Req("saveGame", "getItem", <<NewGame(boardState, result, now + 1)>>,
               FALSE, NoGames, nullStr, nullStr, now + 1))

\* a slip: the full board tested before the winner
handlePress_DrawFirst(index) ==
    /\ screen = "Game"
    /\ IF board[index] # null \/ winner # nullStr
       THEN /\ last' = PressStep(index, FALSE)
            /\ UNCHANGED <<gameVars, inflight, now>>
       ELSE LET newBoard == NewBoard(index)
                r == calculateWinner(newBoard)
                winName == IF r[1] = "X" THEN playerX ELSE playerO
            IN /\ board' = newBoard
               /\ xIsNext' = ~xIsNext
               /\ res' = r
               /\ UNCHANGED firstPlayer
               /\ IF EveryCell(newBoard)
                  THEN /\ winner' = DRAW
                       /\ UNCHANGED winningCombo
                       /\ saveGameCall(newBoard, DRAW)
                       /\ last' = PressStep(index, TRUE)
                  ELSE IF r # <<>>
                  THEN /\ winner' = winName
                       /\ winningCombo' = r[2]
                       /\ saveGameCall(newBoard, winName \o WINS)
                       /\ last' = PressStep(index, TRUE)
                  ELSE /\ last' = PressStep(index, FALSE)
                       /\ UNCHANGED <<winner, winningCombo, inflight, now>>
    /\ UNCHANGED <<histVars, store, navVars, pc>>

\* handlePress(index), with the synchronous part of the saveGame call it makes
handlePress(index) ==
    /\ screen = "Game"
    /\ IF board[index] # null \/ winner # nullStr
       THEN /\ last' = PressStep(index, FALSE)
            /\ UNCHANGED <<gameVars, inflight, now>>
       ELSE LET newBoard == NewBoard(index)
                r == calculateWinner(newBoard)
                winName == IF r[1] = "X" THEN playerX ELSE playerO
            IN /\ board' = newBoard
               /\ xIsNext' = ~xIsNext
               /\ res' = r
               /\ UNCHANGED firstPlayer
               /\ IF r # <<>>
                  THEN /\ winner' = winName
                       /\ winningCombo' = r[2]
                       /\ saveGameCall(newBoard, winName \o WINS)
                       /\ last' = PressStep(index, TRUE)
                  ELSE IF EveryCell(newBoard)
                  THEN /\ winner' = DRAW
                       /\ UNCHANGED winningCombo
                       /\ saveGameCall(newBoard, DRAW)
                       /\ last' = PressStep(index, TRUE)
                  ELSE /\ last' = PressStep(index, FALSE)
                       /\ UNCHANGED <<winner, winningCombo, inflight, now>>
    /\ UNCHANGED <<histVars, store, navVars, pc>>

\* the Restart button
Restart ==
    /\ screen = "Game"
    /\ board' = EmptyBoard
    /\ winner' = nullStr
    /\ winningCombo' = <<>>
    /\ xIsNext' = (firstPlayer = "X")
    /\ last' = NoStep
    /\ UNCHANGED <<res, firstPlayer, histVars, store, inflight, navVars, now, pc>>

----------------------------------------------------------------------------
(* HistoryScreen *)

Titles == {sections[i].title : i \in DOMAIN sections}
Timestamps == {games[i].timestamp : i \in DOMAIN games}

\* loadGames after getItem settles
loadGames ==
    /\ inflight # <<>>
    /\ Head(inflight).op = "loadGames"
    /\ inflight' = Tail(inflight)
    /\ \E io \in BOOLEAN :
          LET h == Head(inflight)
          IN IF io \/ ParseThrows(store)
             THEN /\ last' = Step("loadGames", "settled", "Failed to load game history.", io, Pre, h)
                  /\ UNCHANGED <<games, sections>>
             ELSE /\ last' = Step("loadGames", "settled", "", io, Pre, h)
                  /\ IF h.live
                     THEN games' = ParseOrEmpty(store) /\ Render(ParseOrEmpty(store))
                     ELSE UNCHANGED <<games, sections>>
    /\ UNCHANGED <<gameVars, editingTitle, editedTitleText, store, navVars, now, pc>>

\* games.filter((g) => g.timestamp !== timestamp)
Filtered(gs, timestamp) ==
    LET Keep(g) == g.timestamp # timestamp
    IN SelectSeq(gs, Keep)

\* handleDeleteGame up to its await: filter, issue setItem
handleDeleteGame(timestamp) ==
    /\ screen = "History"
    /\ inflight' = Append(inflight,
           Req("handleDeleteGame", "setItem", Filtered(games, timestamp), TRUE, games,
               nullStr, nullStr, timestamp))
    /\ last' = NoStep
    /\ UNCHANGED <<gameVars, histVars, store, navVars, now, pc>>

\* handleDeleteGame after setItem settles
handleDeleteGameSettled ==
    /\ inflight # <<>>
    /\ Head(inflight).op = "handleDeleteGame"
    /\ inflight' = Tail(inflight)
    /\ \E io \in BOOLEAN :
          LET h == Head(inflight)
          IN IF io
             THEN /\ last' = Step("handleDeleteGame", "settled",
                                  "Failed to delete the game record.", io, Pre, h)
                  /\ UNCHANGED <<games, sections, store>>
             ELSE /\ store' = Stringify(h.value)
                  /\ last' = Step("handleDeleteGame", "settled", "", io, Pre, h)
                  /\ IF h.live
                     THEN games' = h.value /\ Render(h.value)
                     ELSE UNCHANGED <<games, sections>>
    /\ UNCHANGED <<gameVars, editingTitle, editedTitleText, navVars, now, pc>>

\* handleDeleteAll up to its await: issue removeItem
handleDeleteAll ==
    /\ screen = "History"
    /\ inflight' = Append(inflight,
           Req("handleDeleteAll", "removeItem", NoGames, TRUE, games, nullStr, nullStr, 0))
    /\ last' = NoStep
    /\ UNCHANGED <<gameVars, histVars, store, navVars, now, pc>>

\* handleDeleteAll after removeItem settles
handleDeleteAllSettled ==
    /\ inflight # <<>>
    /\ Head(inflight).op = "handleDeleteAll"
    /\ inflight' = Tail(inflight)
    /\ \E io \in BOOLEAN :
          LET h == Head(inflight)
          IN IF io
             THEN /\ last' = Step("handleDeleteAll", "settled",
                                  "Failed to delete history.", io, Pre, h)
                  /\ UNCHANGED <<games, sections, store>>
             ELSE /\ store' = Absent
                  /\ last' = Step("handleDeleteAll", "settled", "", io, Pre, h)
                  /\ IF h.live
                     THEN games' = NoGames /\ Render(NoGames)
                     ELSE UNCHANGED <<games, sections>>
    /\ UNCHANGED <<gameVars, editingTitle, editedTitleText, navVars, now, pc>>

\* the Edit Title button of a section header
EditTitle(title) ==
    /\ screen = "History"
    /\ editingTitle' = title
    /\ editedTitleText' = title
    /\ last' = NoStep
    /\ UNCHANGED <<gameVars, games, sections, store, inflight, navVars, now, pc>>

\* the Cancel button of the section being edited
CancelEdit ==
    /\ screen = "History"
    /\ editingTitle \in Titles
    /\ editingTitle' = nullStr
    /\ editedTitleText' = <<>>
    /\ last' = NoStep
    /\ UNCHANGED <<gameVars, games, sections, store, inflight, navVars, now, pc>>

\* onChangeText of the title input of the section being edited
ChangeText(text) ==
    /\ screen = "History"
    /\ editingTitle \in Titles
    /\ editedTitleText' = text
    /\ last' = NoStep
    /\ UNCHANGED <<gameVars, games, sections, editingTitle, store, inflight, navVars, now, pc>>

----------------------------------------------------------------------------
(* HistoryScreen.handleSaveEditTitle *)

\* a slip: the duplicate test without its exclusion of the title being edited
IsDuplicate_AnyTitle(gs, trimmedNew, oldTitle) ==
    \E i \in DOMAIN groupGamesByPlayers(gs) : groupGamesByPlayers(gs)[i].title = trimmedNew

\* groupGamesByPlayers().some((group) => group.title === trimmedNew &&
\*                                       group.title !== oldTitle)
IsDuplicate(gs, trimmedNew, oldTitle) ==
    \E i \in DOMAIN groupGamesByPlayers(gs) :
        /\ groupGamesByPlayers(gs)[i].title = trimmedNew
        /\ groupGamesByPlayers(gs)[i].title # oldTitle

\* const [xNameNew, oNameNew] = trimmedNew.split(' vs ')
NamesOf(title) == <<Elem(split(title, SEP), 1), Elem(split(title, SEP), 2)>>

\* !xNameNew || !oNameNew
IsMalformed(trimmedNew) ==
    ~Truthy(NamesOf(trimmedNew)[1]) \/ ~Truthy(NamesOf(trimmedNew)[2])

MsgEmpty == "Title cannot be empty"
MsgDuplicate == "Cannot have duplicate titles"
MsgMalformed == "Title must follow format \"PlayerX vs PlayerO\""
MsgUpdate == "Failed to update titles"

\* the three validations in the order of the code; "" when the title passes
TitleError(gs, oldTitle, text) ==
    IF ~Truthy(trim(text)) THEN MsgEmpty
    ELSE IF IsDuplicate(gs, trim(text), oldTitle) THEN MsgDuplicate
    ELSE IF IsMalformed(trim(text)) THEN MsgMalformed
    ELSE ""

\* the callback of games.map
RenameGame(game, oldTitle, trimmedNew) ==
    IF /\ trim(game.players.X) = NamesOf(oldTitle)[1]
       /\ trim(game.players.O) = NamesOf(oldTitle)[2]
    THEN [game EXCEPT !.players = [X |-> trim(NamesOf(trimmedNew)[1]),
                                   O |-> trim(NamesOf(trimmedNew)[2])]]
    ELSE game

UpdatedGames(gs, oldTitle, trimmedNew) ==
    [i \in DOMAIN gs |-> RenameGame(gs[i], oldTitle, trimmedNew)]

\* a slip: a validation that alerts and does not return
handleSaveEditTitle_NoReturn(oldTitle) ==
    /\ screen = "History"
    /\ oldTitle = editingTitle
    /\ oldTitle \in Titles
    /\ inflight' = Append(inflight,
           Req("handleSaveEditTitle", "setItem",
               UpdatedGames(games, oldTitle, trim(editedTitleText)), TRUE, games,
               oldTitle, trim(editedTitleText), 0))
    /\ last' = Step("handleSaveEditTitle", "call",
                    TitleError(games, oldTitle, editedTitleText), FALSE, Pre,
                    Req("handleSaveEditTitle", "setItem",
                        UpdatedGames(games, oldTitle, trim(editedTitleText)), TRUE,
                        games, oldTitle, trim(editedTitleText), 0))
    /\ UNCHANGED <<gameVars, histVars, store, navVars, now, pc>>

\* handleSaveEditTitle up to its await: validate, rewrite, issue setItem.  The Save
\* button belongs to the header of the section whose title is editingTitle.
handleSaveEditTitle(oldTitle) ==
    /\ screen = "History"
    /\ oldTitle = editingTitle
    /\ oldTitle \in Titles
    /\ LET err == TitleError(games, oldTitle, editedTitleText)
       IN IF err # ""
          THEN /\ last' = Step("handleSaveEditTitle", "call", err, FALSE, Pre,
                               Req("handleSaveEditTitle", "none", NoGames, TRUE, games,
                                   oldTitle, trim(editedTitleText), 0))
               /\ UNCHANGED inflight
          ELSE /\ inflight' = Append(inflight,
                      Req("handleSaveEditTitle", "setItem",
                          UpdatedGames(games, oldTitle, trim(editedTitleText)), TRUE, games,
                          oldTitle, trim(editedTitleText), 0))
               /\ last' = Step("handleSaveEditTitle", "call", "", FALSE, Pre,
                               Req("handleSaveEditTitle", "setItem",
                                   UpdatedGames(games, oldTitle, trim(editedTitleText)), TRUE,
                                   games, oldTitle, trim(editedTitleText), 0))
    /\ UNCHANGED <<gameVars, histVars, store, navVars, now, pc>>

\* a slip: the state set before the write is awaited
handleSaveEditTitleSettled_Optimistic ==
    /\ inflight # <<>>
    /\ Head(inflight).op = "handleSaveEditTitle"
    /\ inflight' = Tail(inflight)
    /\ \E io \in BOOLEAN :
          LET h == Head(inflight)
          IN /\ last' = Step("handleSaveEditTitle", "settled",
                             IF io THEN MsgUpdate ELSE "", io, Pre, h)
             /\ store' = IF io THEN store ELSE Stringify(h.value)
             /\ IF h.live
                THEN /\ games' = h.value
                     /\ Render(h.value)
                     /\ editingTitle' = nullStr
                     /\ editedTitleText' = <<>>
                ELSE UNCHANGED histVars
    /\ UNCHANGED <<gameVars, navVars, now, pc>>

\* handleSaveEditTitle after setItem settles
handleSaveEditTitleSettled ==
    /\ inflight # <<>>
    /\ Head(inflight).op = "handleSaveEditTitle"
    /\ inflight' = Tail(inflight)
    /\ \E io \in BOOLEAN :
          LET h == Head(inflight)
          IN IF io
             THEN /\ last' = Step("handleSaveEditTitle", "settled", MsgUpdate, io, Pre, h)
                  /\ UNCHANGED <<histVars, store>>
             ELSE /\ store' = Stringify(h.value)
                  /\ last' = Step("handleSaveEditTitle", "settled", "", io, Pre, h)
                  /\ IF h.live
                     THEN /\ games' = h.value
                          /\ Render(h.value)
                          /\ editingTitle' = nullStr
                          /\ editedTitleText' = <<>>
                     ELSE UNCHANGED histVars
    /\ UNCHANGED <<gameVars, navVars, now, pc>>

----------------------------------------------------------------------------
(* The app *)

Init ==
    /\ NoGameScreen
    /\ res = <<>>
    /\ games = NoGames
    /\ sections = <<>>
    /\ editingTitle = nullStr
    /\ editedTitleText = <<>>
    /\ store \in {Absent, Corrupt, Stringify(<<LegacyGame>>)}
    /\ inflight = <<>>
    /\ screen = "Home"
    /\ back = "Home"
    /\ playerX = <<>>
    /\ playerO = <<>>
    /\ now = 0
    /\ last = NoStep
    /\ pc = "run"

\* a user action that issues an AsyncStorage call waits for room in the queue
Room == Len(inflight) < MaxInflight

\* the names, endings and titles tried where every handler interleaves
FewPlayers == { <<A, B>>, <<SP \o B, A>>, <<SP, B>> }
FewFirst == { "X" }
FewEndings == { <<XWinBoard, "X">> }
FewTitles == { SP, B \o SEP \o A }

Next ==
    \/ \E p \in FewPlayers, f \in FewFirst : startGame(p[1], p[2], f)
    \/ Room /\ OpenHistory
    \/ GoBack
    \/ ChangePlayers
    \/ \E e \in FewEndings : Room /\ now < MaxNow /\ saveGame(e[1], e[2])
    \/ saveGameRead
    \/ saveGameWrite
    \/ loadGames
    \/ \E t \in Timestamps : Room /\ handleDeleteGame(t)
    \/ handleDeleteGameSettled
    \/ Room /\ handleDeleteAll
    \/ handleDeleteAllSettled
    \/ \E t \in Titles : EditTitle(t)
    \/ CancelEdit
    \/ \E text \in FewTitles : ChangeText(text)
    \/ \E t \in Titles : Room /\ handleSaveEditTitle(t)
    \/ handleSaveEditTitleSettled

Spec == Init /\ [][Next]_vars

----------------------------------------------------------------------------
(* The store under saves and loads alone, with every name and ending *)

NextStore ==
    \/ \E p \in PlayerInputs, f \in FewFirst : startGame(p[1], p[2], f)
    \/ Room /\ OpenHistory
    \/ GoBack
    \/ ChangePlayers
    \/ \E e \in Endings : Room /\ now < MaxSaves /\ saveGame(e[1], e[2])
    \/ saveGameRead
    \/ saveGameWrite
    \/ loadGames

SpecStore == Init /\ [][NextStore]_vars

----------------------------------------------------------------------------
(* The history screen over a loaded list, with every title, its handlers called  *)
(* one after the other                                                        *)

\* the record saveGame writes for the players typed as x, o
SavedGame(x, o, e, t) ==
    [board |-> e[1],
     result |-> IF e[2] = "X" THEN trim(x) \o WINS
                ELSE IF e[2] = "O" THEN trim(o) \o WINS ELSE DRAW,
     players |-> [X |-> trim(x), O |-> trim(o)], timestamp |-> t]

HistPlayers == { <<A, B>>, <<B, A>>, <<A \o SEP \o B, C>> }

\* records the store can hold, by what wrote them; timestamps are set by position
HistPool ==
    {SavedGame(p[1], p[2], <<XWinBoard, "X">>, 0) : p \in HistPlayers}
        \cup {SavedGame(A, B, <<DrawBoard, "Draw">>, 0), LegacyGame}

\* the store is newest first: timestamps fall along the list
Stamped(list) == [i \in DOMAIN list |-> [list[i] EXCEPT !.timestamp = Len(list) - i + 1]]

HistLists(n) == UNION {{Stamped(l) : l \in [1..k -> HistPool]} : k \in 0..n}

InitHistory ==
    /\ NoGameScreen
    /\ res = <<>>
    /\ games \in HistLists(MaxHist)
    /\ sections = groupGamesByPlayers(games)
    /\ editingTitle = nullStr
    /\ editedTitleText = <<>>
    /\ store = Stringify(games)
    /\ inflight = <<>>
    /\ screen = "History"
    /\ back = "Home"
    /\ playerX = <<>>
    /\ playerO = <<>>
    /\ now = MaxHist
    /\ last = NoStep
    /\ pc = "run"

\* here the user waits for a handler to settle before calling the next one
Idle == inflight = <<>>

NextHistory ==
    \/ \E t \in Timestamps : Idle /\ handleDeleteGame(t)
    \/ handleDeleteGameSettled
    \/ Idle /\ handleDeleteAll
    \/ handleDeleteAllSettled
    \/ \E t \in Titles : EditTitle(t)
    \/ CancelEdit
    \/ \E text \in TitleInputs : ChangeText(text)
    \/ \E t \in Titles : Idle /\ handleSaveEditTitle(t)
    \/ handleSaveEditTitleSettled

SpecHistory == InitHistory /\ [][NextHistory]_vars

----------------------------------------------------------------------------
(* The game screen: every sequence of presses and restarts up to the end of a  *)
(* game, the presses after it, and the restart                                *)

FirstPlayers == { "X", "O", null }

InitGame ==
    /\ NoGameScreen
    /\ res = <<>>
    /\ games = NoGames
    /\ sections = <<>>
    /\ editingTitle = nullStr
    /\ editedTitleText = <<>>
    /\ store = Absent
    /\ inflight = <<>>
    /\ screen = "Home"
    /\ back = "Home"
    /\ playerX = <<>>
    /\ playerO = <<>>
    /\ now = 0
    /\ last = NoStep
    /\ pc = "run"

\* the save of an ended game stays pending: no game is played to its end behind it
NextGame ==
    \/ \E p \in FewPlayers, f \in FirstPlayers : startGame(p[1], p[2], f)
    \/ \E index \in 0..8 : (Idle \/ winner # nullStr) /\ handlePress(index)
    \/ Restart

SpecGame == InitGame /\ [][NextGame]_vars

----------------------------------------------------------------------------
(* calculateWinner applied to every board, also boards no play produces *)

Idle0 ==
    /\ editingTitle = nullStr
    /\ editedTitleText = <<>>
    /\ store = Absent
    /\ inflight = <<>>
    /\ screen = "Home"
    /\ back = "Home"
    /\ playerX = <<>>
    /\ playerO = <<>>
    /\ now = 0
    /\ last = NoStep

InitWin ==
    /\ board \in Boards
    /\ xIsNext = TRUE
    /\ winner = nullStr
    /\ winningCombo = <<>>
    /\ firstPlayer = "X"
    /\ res = <<>>
    /\ games = NoGames
    /\ sections = <<>>
    /\ pc = "start"
    /\ Idle0

CallCalculateWinner ==
    /\ pc = "start"
    /\ res' = calculateWinner(board)
    /\ pc' = "done"
    /\ UNCHANGED <<playVars, histVars, store, inflight, navVars, now, last>>

NextWin == CallCalculateWinner

SpecWin == InitWin /\ [][NextWin]_vars

----------------------------------------------------------------------------
(* groupGamesByPlayers applied to lists of stored records *)

GroupPlayers ==
    { <<A, B>>, <<B, A>>, <<A, A>>, <<A \o SEP \o B, C>>, <<A, B \o SEP \o C>>,
      <<DRAWS, A>> }

\* records as saveGame writes them, one as the earlier revision wrote it, and one
\* as a rename leaves it
GroupPool ==
    {SavedGame(p[1], p[2], e, 0) : p \in GroupPlayers, e \in Endings}
        \cup {LegacyGame,
              RenameGame(SavedGame(B, A, <<XWinBoard, "X">>, 0), B \o SEP \o A, C \o SEP \o A)}

InitGroup ==
    /\ NoGameScreen
    /\ res = <<>>
    /\ \E k \in 0..MaxLen : \E l \in [1..k -> GroupPool] : games = Stamped(l)
    /\ sections = <<>>
    /\ pc = "start"
    /\ Idle0

\* const sections = groupGamesByPlayers()
RenderSections ==
    /\ pc = "start"
    /\ Render(games)
    /\ pc' = "done"
    /\ UNCHANGED <<gameVars, games, editingTitle, editedTitleText, store, inflight,
                   navVars, now, last>>

NextGroup == RenderSections

SpecGroup == InitGroup /\ [][NextGroup]_vars

----------------------------------------------------------------------------
(* Claims about calculateWinner *)

ClaimLines == << <<0, 1, 2>>, <<3, 4, 5>>, <<6, 7, 8>>,
                 <<0, 3, 6>>, <<1, 4, 7>>, <<2, 5, 8>>,
                 <<0, 4, 8>>, <<2, 4, 6>> >>

LineComplete(b, l) == b[l[1]] \in {"X", "O"} /\ b[l[2]] = b[l[1]] /\ b[l[3]] = b[l[1]]

CompleteLines(b) == {k \in DOMAIN ClaimLines : LineComplete(b, ClaimLines[k])}

\* C1: for every board over {empty, X, O}, calculateWinner returns the symbol and the
\* triple of the first line, in the order [0,1,2],[3,4,5],[6,7,8],[0,3,6],[1,4,7],
\* [2,5,8],[0,4,8],[2,4,6], whose three cells are equal and not empty, and returns
\* none exactly when the board has no such line.
C1_FirstCompleteLine ==
    pc = "done" =>
        IF CompleteLines(board) = {}
        THEN res = <<>>
        ELSE LET k == CHOOSE k \in CompleteLines(board) :
                          \A j \in CompleteLines(board) : k <= j
             IN res = <<board[ClaimLines[k][1]], ClaimLines[k]>>

\* C1 witness: a board with two complete lines of different symbols, answered with
\* the earlier one
C1_Witness ==
    /\ pc = "done"
    /\ res = <<"O", <<3, 4, 5>>>>
    /\ LineComplete(board, <<6, 7, 8>>)
    /\ board[6] = "X"
    /\ board[0] = null

----------------------------------------------------------------------------
(* Claims about groupGamesByPlayers *)

ClaimKey(game) == trim(game.players.X) \o SEP \o trim(game.players.O)

\* the records of gs with key t, in the order of gs
WithKey(gs, t) ==
    LET Has(g) == ClaimKey(g) = t
    IN SelectSeq(gs, Has)

FirstIndex(gs, t) ==
    CHOOSE i \in DOMAIN gs :
        ClaimKey(gs[i]) = t /\ \A j \in DOMAIN gs : ClaimKey(gs[j]) = t => i <= j

\* a numbered record is the given record with its names trimmed and its number added
IsNumbered(d, g, k) ==
    /\ d.board = g.board
    /\ d.result = g.result
    /\ d.timestamp = g.timestamp
    /\ d.players = [X |-> trim(g.players.X), O |-> trim(g.players.O)]
    /\ d.gameNumber = GAME \o Decimal(k)

\* C2: groupGamesByPlayers emits one group per distinct key "<trimmed X> vs <trimmed
\* O>" in first-seen order; a group's data is the input-ordered subsequence of the
\* records with that key (each with its names trimmed), so no group is empty and
\* swapped pairings are different groups; the k-th record of a group is "Game k".
C2_GroupsPartition ==
    pc = "done" =>
        /\ {sections[i].title : i \in DOMAIN sections}
               = {ClaimKey(games[k]) : k \in DOMAIN games}
        /\ \A i, j \in DOMAIN sections :
               i < j => /\ sections[i].title # sections[j].title
                        /\ FirstIndex(games, sections[i].title)
                               < FirstIndex(games, sections[j].title)
        /\ \A i \in DOMAIN sections :
               LET sub == WithKey(games, sections[i].title)
               IN /\ Len(sections[i].data) = Len(sub)
                  /\ Len(sub) >= 1
                  /\ \A k \in DOMAIN sub : IsNumbered(sections[i].data[k], sub[k], k)

\* C2 witness: three records, a pairing seen twice around its swapped pairing
C2_Witness ==
    /\ pc = "done"
    /\ Len(games) = 3
    /\ Len(sections) = 2
    /\ sections[1].title = A \o SEP \o B
    /\ sections[2].title = B \o SEP \o A
    /\ Len(sections[1].data) = 2
    /\ sections[1].data[2].gameNumber = GAME \o Str("2")
    /\ sections[1].data[2].timestamp = 1
    /\ games[1].players.X = SP \o A

CountResult(data, text) == Cardinality({k \in DOMAIN data : data[k].result = text})

\* C3: the stats of every group map the group's X name to the number of its records
\* whose result is "<X name> wins", its O name to the number of its records whose
\* result is "<O name> wins", and "Draws" to the number of its other records.
C3_StatsCountResults ==
    pc = "done" =>
        \A i \in DOMAIN sections :
            LET data == sections[i].data
                X == data[1].players.X
                O == data[1].players.O
            IN /\ sections[i].stats[X] = CountResult(data, X \o WINS)
               /\ sections[i].stats[O] = CountResult(data, O \o WINS)
               /\ sections[i].stats[DRAWS] =
                      Cardinality({k \in DOMAIN data :
                          data[k].result \notin {X \o WINS, O \o WINS}})

----------------------------------------------------------------------------
(* Claims about handleSaveEditTitle *)

RenameCalled == last.op = "handleSaveEditTitle" /\ last.phase = "call"
RenameSettled == last.op = "handleSaveEditTitle" /\ last.phase = "settled"

\* the title typed, trimmed, and the title of the section whose Save was pressed
TypedTitle == trim(last.pre.editedTitleText)
SavedTitle == last.pre.editingTitle

TitlesOf(gs) == {ClaimKey(gs[i]) : i \in DOMAIN gs}

TwoNonEmptyParts(title) ==
    /\ Len(split(title, SEP)) = 2
    /\ split(title, SEP)[1] # <<>>
    /\ split(title, SEP)[2] # <<>>

\* C4: a new title that is neither empty nor a duplicate is accepted only if it
\* splits on " vs " into exactly two non-empty parts; any other is rejected with the
\* malformed-title message and no write is issued.
C4_ExactlyTwoParts ==
    RenameCalled /\ last.alert \notin {MsgEmpty, MsgDuplicate} =>
        IF TwoNonEmptyParts(TypedTitle)
        THEN last.alert = ""
        ELSE /\ last.alert = MsgMalformed
             /\ inflight = last.pre.inflight
             /\ store = last.pre.store

\* C5: the rename fails with the duplicate-title message whenever the trimmed new
\* title is the title of an existing group other than the one being renamed, and
\* does not fail with it when the new title is the old title.
C5_DuplicateRejected ==
    RenameCalled =>
        /\ TypedTitle \in TitlesOf(last.pre.games) \ {SavedTitle}
               => last.alert = MsgDuplicate
        /\ TypedTitle = SavedTitle => last.alert # MsgDuplicate

\* C5 witness: a rename to the title of another group, refused as a duplicate
C5_Witness ==
    /\ RenameCalled
    /\ last.alert = MsgDuplicate
    /\ TypedTitle \in TitlesOf(games)
    /\ TypedTitle # SavedTitle

\* C6: when a rename succeeds, every record of the group titled oldTitle has its
\* players replaced by the new trimmed names and keeps its board, result and
\* timestamp, and every other record is unchanged; length and order are kept.
C6_RenamesTheGroup ==
    RenameSettled /\ ~last.io /\ last.req.live /\ TwoNonEmptyParts(last.req.newTitle) =>
        LET before == last.pre.games
            new == NamesOf(last.req.newTitle)
        IN /\ Len(games) = Len(before)
           /\ \A i \in DOMAIN before :
                  games[i] = IF ClaimKey(before[i]) = last.req.oldTitle
                             THEN [before[i] EXCEPT
                                      !.players = [X |-> trim(new[1]), O |-> trim(new[2])]]
                             ELSE before[i]

\* C7: a rename rejected for an empty, duplicate or malformed title changes nothing:
\* the store and the games list are what they were and no write is issued.
C7_RejectedRenameIsNoOp ==
    RenameCalled /\ last.alert \in {MsgEmpty, MsgDuplicate, MsgMalformed} =>
        /\ store = last.pre.store
        /\ games = last.pre.games
        /\ inflight = last.pre.inflight

\* C7 witness: a title without the separator, refused, over a list with records
C7_Witness ==
    /\ RenameCalled
    /\ last.alert = MsgMalformed
    /\ TypedTitle = A \o B
    /\ Len(games) = 2

----------------------------------------------------------------------------
(* Claims about the store *)

\* C8: a delete that succeeds removes from the store exactly the records with the
\* given timestamp and keeps the others in their order (N - 1 records are left of N
\* when the timestamp occurs once).
C8_DeleteRemovesExactly ==
    last.op = "handleDeleteGame" /\ last.phase = "settled" /\ ~last.io =>
        LET Kept(g) == g.timestamp # last.req.timestamp
        IN ParseOrEmpty(store) = SelectSeq(ParseOrEmpty(last.pre.store), Kept)

LoadSettled == last.op = "loadGames" /\ last.phase = "settled" /\ ~last.io /\ last.req.live
SaveRead == last.op = "saveGame" /\ last.phase = "read" /\ ~last.io

C10_FailedWriteKeepsState ==
    /\ last.phase = "settled"
    /\ last.io
    /\ last.op \in {"handleDeleteGame", "handleDeleteAll", "handleSaveEditTitle"}
    => /\ games = last.pre.games
       /\ sections = groupGamesByPlayers(last.pre.games)
       /\ editingTitle = last.pre.editingTitle
       /\ editedTitleText = last.pre.editedTitleText
       /\ store = last.pre.store
       /\ last.alert \in {"Failed to delete the game record.",
                           "Failed to delete history.", MsgUpdate}

\* C10 witness: a rename whose write failed, the title still being edited and the
\* list not rewritten
C10_Witness ==
    /\ RenameSettled
    /\ last.io
    /\ editingTitle = A \o SEP \o B
    /\ editedTitleText = B \o SEP \o A
    /\ last.req.value # games

----------------------------------------------------------------------------
(* Claims about handlePress *)

Pressed == last.op = "handlePress"

\* the name of the player who owns the symbol of the completed lines of b
OwnerOfLine(b) ==
    LET k == CHOOSE k \in CompleteLines(b) : TRUE
    IN IF b[ClaimLines[k][1]] = "X" THEN playerX ELSE playerO

BoardFull(b) == \A i \in 0..8 : b[i] \in {"X", "O"}
Ended(b) == CompleteLines(b) # {} \/ BoardFull(b)

\* the press called saveGame once, with board b and result text
SavedOnce(b, text) ==
    /\ Len(inflight) = Len(last.pre.inflight) + 1
    /\ SubSeq(inflight, 1, Len(last.pre.inflight)) = last.pre.inflight
    /\ LET r == inflight[Len(inflight)]
       IN /\ r.op = "saveGame"
          /\ r.value = << [board |-> b, result |-> text,
                           players |-> [X |-> playerX, O |-> playerO],
                           timestamp |-> now] >>

\* C13: a press on an empty cell of a game that has not ended places the mover's
\* symbol and passes the turn; it saves a record exactly when it ends the game, with
\* "<name> wins" for the owner of the completed line whenever the new board has one
\* (also when the move fills the board) and "Draw" only when the new board is full
\* without one; any other press changes neither board nor turn and saves nothing; a
\* game counts as ended from its saving press until the restart, so it is saved once.
C13_SavedWhenGameEnds ==
    /\ screen = "Game" => (winner # nullStr <=> Ended(board))
    /\ Pressed =>
          LET pre == last.pre
              i == last.index
              newBoard == [pre.board EXCEPT ![i] = IF pre.xIsNext THEN "X" ELSE "O"]
          IN IF pre.board[i] # null \/ Ended(pre.board)
             THEN /\ board = pre.board
                  /\ xIsNext = pre.xIsNext
                  /\ winner = pre.winner
                  /\ inflight = pre.inflight
             ELSE /\ board = newBoard
                  /\ xIsNext = ~pre.xIsNext
                  /\ IF CompleteLines(newBoard) # {}
                     THEN SavedOnce(newBoard, OwnerOfLine(newBoard) \o WINS)
                     ELSE IF BoardFull(newBoard)
                     THEN SavedOnce(newBoard, DRAW)
                     ELSE inflight = pre.inflight

\* C13 witness: the ninth move completes a line, saved as a win of its owner
C13_Witness ==
    /\ Pressed
    /\ BoardFull(board)
    /\ CompleteLines(board) # {}
    /\ last.pre.board # board
    /\ winner = playerO
    /\ inflight # <<>>
    /\ inflight[Len(inflight)].value[1].result = playerO \o WINS

----------------------------------------------------------------------------
(* Claims about the interleaving of the store's operations *)

\* C11: at most one operation on the store (save game, load, delete one, delete all,
\* rename) is in flight: none starts its read or write between another operation's
\* read and its write.
C11_OneOperationInFlight == Len(inflight) <= 1

StoredTimestamps(data) ==
    {ParseOrEmpty(data)[i].timestamp : i \in DOMAIN ParseOrEmpty(data)}

\* the timestamps of the records this run's saveGame calls wrote
SavedTimestamps(data) == {t \in StoredTimestamps(data) : t >= 1}

\* C15: a record saveGame has written stays in the store until handleDeleteGame is
\* called with its timestamp or handleDeleteAll is called: a delete of another record
\* that succeeds and a rename that succeeds leave it in the store.
C15_SavedRecordStays ==
    /\ last.op = "handleDeleteGame" /\ last.phase = "settled" /\ ~last.io
           => SavedTimestamps(last.pre.store) \ {last.req.timestamp}
                  \subseteq StoredTimestamps(store)
    /\ last.op = "handleSaveEditTitle" /\ last.phase = "settled" /\ ~last.io
           => SavedTimestamps(last.pre.store) \subseteq StoredTimestamps(store)

----------------------------------------------------------------------------
(* Claims about saveGame's write *)

NewestFirst(list) ==
    \A i, j \in DOMAIN list : i < j => list[i].timestamp >= list[j].timestamp

\* C12: a saveGame that succeeds writes the new record followed by the records of
\* the store as it read them, unchanged and in their order; the store is ordered
\* newest first at all times.
C12_SavePrepends ==
    /\ SaveRead /\ last.alert = ""
           => /\ inflight # <<>>
              /\ inflight[Len(inflight)].call = "setItem"
              /\ inflight[Len(inflight)].value
                     = last.req.value \o ParseOrEmpty(last.pre.store)
    /\ last.op = "saveGame" /\ last.phase = "settled" /\ ~last.io
           => /\ store.kind = "json"
              /\ Len(store.json) = Len(last.req.seen) + 1
              /\ store.json[1].timestamp = last.req.timestamp
              /\ Tail(store.json) = last.req.seen
    /\ NewestFirst(ParseOrEmpty(store))

\* C12 witness: the second save of a run written over the first and an older record
C12_Witness ==
    /\ last.op = "saveGame" /\ last.phase = "settled" /\ ~last.io
    /\ Len(ParseOrEmpty(store)) = 3
    /\ store.json[1].timestamp = 2
    /\ store.json[3] = LegacyGame

----------------------------------------------------------------------------
(* Claims about the tallies and the groups across a rename *)

RECURSIVE SumOver(_, _)
SumOver(f, keys) ==
    IF keys = {} THEN 0
    ELSE LET k == CHOOSE k \in keys : TRUE
         IN f[k] + SumOver(f, keys \ {k})

\* C16: the values of the stats of every group sum to the number of games of the
\* group, whatever the names (also equal X and O names, and a player named "Draws").
C16_StatsSumToCount ==
    pc = "done" =>
        \A i \in DOMAIN sections :
            SumOver(sections[i].stats, DOMAIN sections[i].stats) = Len(sections[i].data)

\* the group of secs with the given title
GroupTitled(secs, title) == secs[CHOOSE i \in DOMAIN secs : secs[i].title = title]
HasGroup(secs, title) == \E i \in DOMAIN secs : secs[i].title = title

\* the title the renamed group gets: the trimmed new names around the separator
RenamedKey == trim(NamesOf(last.req.newTitle)[1]) \o SEP \o trim(NamesOf(last.req.newTitle)[2])

\* a rename that succeeded, of a title and to a title of exactly two names
RenameDone ==
    /\ RenameSettled
    /\ ~last.io
    /\ last.req.live
    /\ TwoNonEmptyParts(last.req.oldTitle)
    /\ TwoNonEmptyParts(last.req.newTitle)

\* C14: a rename that succeeds keeps the tallies of the pairing: the renamed group's
\* stats give the new X name, the new O name and Draws the counts the old X name, the
\* old O name and Draws had before.  (Taken where the rename merges no two groups and
\* the new names are two different names, neither of them "Draws".)
C14_RenameKeepsTallies ==
    /\ RenameDone
    /\ ~HasGroup(groupGamesByPlayers(last.pre.games), RenamedKey)
    /\ trim(NamesOf(last.req.newTitle)[1]) # trim(NamesOf(last.req.newTitle)[2])
    /\ DRAWS \notin {trim(NamesOf(last.req.newTitle)[1]), trim(NamesOf(last.req.newTitle)[2])}
    => /\ HasGroup(sections, RenamedKey)
       /\ LET before == GroupTitled(groupGamesByPlayers(last.pre.games), last.req.oldTitle).stats
              after == GroupTitled(sections, RenamedKey).stats
              old == NamesOf(last.req.oldTitle)
              new == NamesOf(last.req.newTitle)
          IN /\ after[trim(new[1])] = before[old[1]]
             /\ after[trim(new[2])] = before[old[2]]
             /\ after[DRAWS] = before[DRAWS]

TimestampsOf(data) == {data[k].timestamp : k \in DOMAIN data}

\* C17: a rename that succeeds merges the renamed pairing into no other group: the
\* number of groups is what it was, and the renamed group holds exactly the records it
\* held before.
C17_RenameNeverMerges ==
    RenameDone =>
        /\ Len(sections) = Len(groupGamesByPlayers(last.pre.games))
        /\ HasGroup(sections, RenamedKey)
        /\ TimestampsOf(GroupTitled(sections, RenamedKey).data)
               = TimestampsOf(GroupTitled(groupGamesByPlayers(last.pre.games),
                                          last.req.oldTitle).data)

====
